---- MODULE Spec2Model ----
(***************************************************************************)
(* TeleShare (DGSC tracker bot): the SQLite store of src/database.py and   *)
(* the Telegram handlers of src/bot.py that drive it.                      *)
(*                                                                         *)
(* Tables are sequences; a row's id is its index (INTEGER PRIMARY KEY      *)
(* AUTOINCREMENT, rows are never deleted).  The created_at columns are     *)
(* not modelled; resolved_at is NULL_TS or the abstract value TS.          *)
(*                                                                         *)
(* Spec     : the bot as it runs, one process, every handler one step      *)
(*            (the handlers call the synchronous Database methods without  *)
(*            awaiting in between).                                        *)
(* ListSpec : Spec with my_requests_command and pending_requests_command.  *)
(* BotSpec  : the same handlers with the two ConversationHandlers' states  *)
(*            and user_data explicit, over one item name.                  *)
(* ConcSpec : two store connections whose accept_request/reject_request    *)
(*            calls interleave statement by statement.                     *)
(* SearchSpec  : search_command over stores of one or two items.           *)
(* DisplaySpec : the display name built from one users row at each place   *)
(*               that shows an owner or a requester.                       *)
(***************************************************************************)
EXTENDS Integers, Sequences, FiniteSets, TLC

\* ---------------------------------------------------------------- bounds
MaxRequests == 2
BotMaxRequests == 2

UserIds == {1, 2}
Names == {"Drive A", "drive a"}
DescTexts == {"skip"}
MsgTexts == {"skip"}
SendOutcomes == {"sent", "failed"}
DgscIds == 1..Cardinality(Names)
BotNames == {"Drive A"}
BotDgscIds == 1..Cardinality(BotNames)
RequestIds == 1..MaxRequests
Conns == {"c1", "c2"}

\* SearchSpec: texts are sequences of characters
SearchNames == { <<"U","S","B"," ","D","r","i","v","e">>,
                 <<"K","e","y","b","o","a","r","d">>,
                 <<"5","0","%"," ","o","f","f">> }
SearchDescs == { <<>>, <<"s","p","a","r","e"," ","d","r","i","v","e">> }
SearchTerms == { <<"d","r","i","v","e">>, <<"D","R","I","V","E">>, <<"b","o","a","r","d">>,
                 <<"u","s","b","_","d","r","i","v","e">>, <<"_">>, <<"%">>, <<"z","i","p">> }

\* DisplaySpec: a column of a users row is None or a text
PyNone == [none |-> TRUE, text |-> <<>>]
Str(s) == [none |-> FALSE, text |-> s]
FirstNames == { PyNone, Str(<<>>), Str(<<" ">>), Str(<<"A","n","n">>), Str(<<" ","A","n","n"," ">>) }
Usernames == { PyNone, Str(<<>>), Str(<<"j","s","m","i","t","h">>) }
LastNames == { PyNone, Str(<<>>), Str(<<"S","m","i","t","h">>) }

NULL == 0
NULL_TS == "NULL"
TS == "CURRENT_TIMESTAMP"
\* return values as recorded in ret and conn: Python's None, True, False
NoResult == "None"
PyBool(b) == IF b THEN "True" ELSE "False"

\* ConversationHandler.END and the states of bot.py line 23
END == -1
ADDING_DGSC_NAME == 0
ADDING_DGSC_DESC == 1
REQUESTING_MESSAGE == 2

VARIABLES
    users,          \* users table: the user_ids that have a row
    pendrives,      \* pendrives table
    requests,       \* requests table
    transactions,   \* transactions table
    add_conv,       \* add_dgsc_handler: conversation state per user
    req_conv,       \* request_handler: conversation state per user
    user_data,      \* context.user_data per user
    ret,            \* the last handler's Database call and what it returned
    conn,           \* ConcSpec: each connection's position and locals
    call            \* DisplaySpec: the users row shown and the display name built

vars == <<users, pendrives, requests, transactions, add_conv, req_conv, user_data, ret, conn, call>>
db == <<users, pendrives, requests, transactions>>
bot == <<add_conv, req_conv, user_data>>

\* ------------------------------------------------------------ database.py

\* mutant: the name column declared UNIQUE COLLATE NOCASE
UniqueViolationNoCase(p, name) ==
    LET Fold(n) == IF n = "Drive A" THEN "drive a" ELSE n
    IN \E i \in DOMAIN p : Fold(p[i].name) = Fold(name)

\* mutant: the name column without its UNIQUE constraint
UniqueViolationNever(p, name) == FALSE

\* name TEXT UNIQUE NOT NULL: BINARY collation, an exact string comparison
UniqueViolation(p, name) == \E i \in DOMAIN p : p[i].name = name

InsertPendrive(p, name, description, owner_id) ==
    Append(p, [name |-> name, description |-> description, current_owner_id |-> owner_id])

\* mutant: the initial row written with the owner as from_user_id too
InitialTransactionFromOwner(dgsc_id, owner_id) ==
    [pendrive_id |-> dgsc_id, from_user_id |-> owner_id, to_user_id |-> owner_id,
     transaction_type |-> "initial_assignment"]

\* add_dgsc, the row of INSERT INTO transactions ... 'initial_assignment'
InitialTransaction(dgsc_id, owner_id) ==
    [pendrive_id |-> dgsc_id, from_user_id |-> NULL, to_user_id |-> owner_id,
     transaction_type |-> "initial_assignment"]

\* mutant: the item's log rewritten instead of appended to
add_dgscResetLog(p, t, name, description, owner_id) ==
    IF UniqueViolation(p, name)
    THEN [ok |-> FALSE, pendrives |-> p, transactions |-> t]
    ELSE LET p2 == InsertPendrive(p, name, description, owner_id)
         IN [ok |-> TRUE, pendrives |-> p2,
             transactions |-> <<InitialTransaction(Len(p2), owner_id)>>]

\* Database.add_dgsc: the INSERT raises IntegrityError on a duplicate name,
\* the except clause turns it into False; nothing was committed.
add_dgsc(p, t, name, description, owner_id) ==
    IF UniqueViolation(p, name)
    THEN [ok |-> FALSE, pendrives |-> p, transactions |-> t]
    ELSE LET p2 == InsertPendrive(p, name, description, owner_id)
             dgsc_id == Len(p2)
         IN [ok |-> TRUE, pendrives |-> p2,
             transactions |-> Append(t, InitialTransaction(dgsc_id, owner_id))]

\* Database.get_user_dgscs: ids of the rows WHERE current_owner_id = ?
get_user_dgscs(p, user_id) == {i \in DOMAIN p : p[i].current_owner_id = user_id}

\* Database.get_dgsc_by_id: the row (LEFT JOIN users keeps it) or None
get_dgsc_by_id(p, dgsc_id) == IF dgsc_id \in DOMAIN p THEN <<p[dgsc_id]>> ELSE <<>>

\* Database.get_pending_requests_for_user: requests JOIN pendrives JOIN users
\* ON r.requester_id = u.user_id WHERE r.current_owner_id = ? AND r.status =
\* 'pending'; the ids of the rows returned
get_pending_requests_for_user(us, p, r, user_id) ==
    {i \in DOMAIN r : /\ r[i].pendrive_id \in DOMAIN p
                      /\ r[i].requester_id \in us
                      /\ r[i].current_owner_id = user_id
                      /\ r[i].status = "pending"}

\* Database.get_user_requests: requests JOIN pendrives JOIN users ON
\* r.current_owner_id = u.user_id WHERE r.requester_id = ?; the ids of the
\* rows returned
get_user_requests(us, p, r, user_id) ==
    {i \in DOMAIN r : /\ r[i].pendrive_id \in DOMAIN p
                      /\ r[i].current_owner_id \in us
                      /\ r[i].requester_id = user_id}

\* SQLite folds the 26 ASCII upper-case letters for LIKE; the letters the
\* model's strings use
LowerOf == ("U" :> "u") @@ ("S" :> "s") @@ ("B" :> "b") @@ ("D" :> "d") @@ ("K" :> "k")
           @@ ("R" :> "r") @@ ("I" :> "i") @@ ("V" :> "v") @@ ("E" :> "e")

FoldAscii(c) == IF c \in DOMAIN LowerOf THEN LowerOf[c] ELSE c

\* pattern LIKE str without ESCAPE: % matches any run of characters, _ any
\* one character, every other character itself with ASCII case folded
RECURSIVE Like(_, _)
Like(pattern, str) ==
    IF pattern = <<>> THEN str = <<>>
    ELSE IF Head(pattern) = "%"
         THEN Like(Tail(pattern), str) \/ (str # <<>> /\ Like(pattern, Tail(str)))
    ELSE IF str = <<>> THEN FALSE
    ELSE IF Head(pattern) = "_" THEN Like(Tail(pattern), Tail(str))
    ELSE FoldAscii(Head(pattern)) = FoldAscii(Head(str)) /\ Like(Tail(pattern), Tail(str))

\* Database.search_dgsc: WHERE p.name LIKE ? OR p.description LIKE ? with
\* f"%{search_term}%" bound to both; the ids of the rows returned
search_dgsc(p, search_term) ==
    LET search_pattern == <<"%">> \o search_term \o <<"%">>
    IN {i \in DOMAIN p : \/ Like(search_pattern, p[i].name)
                         \/ Like(search_pattern, p[i].description)}

\* mutant: a second pending request of the same requester for the same item
\* is not inserted
create_requestUniquePending(r, dgsc_id, requester_id, current_owner_id, message) ==
    IF \E i \in DOMAIN r : /\ r[i].pendrive_id = dgsc_id
                           /\ r[i].requester_id = requester_id
                           /\ r[i].status = "pending"
    THEN r
    ELSE Append(r, [pendrive_id |-> dgsc_id, requester_id |-> requester_id,
                    current_owner_id |-> current_owner_id, status |-> "pending",
                    message |-> message, resolved_at |-> NULL_TS])

\* mutant: the requester stored in the owner column
create_requestOwnerIsRequester(r, dgsc_id, requester_id, current_owner_id, message) ==
    Append(r, [pendrive_id |-> dgsc_id, requester_id |-> requester_id,
               current_owner_id |-> requester_id, status |-> "pending",
               message |-> message, resolved_at |-> NULL_TS])

\* Database.create_request: status DEFAULT 'pending', resolved_at NULL
create_request(r, dgsc_id, requester_id, current_owner_id, message) ==
    Append(r, [pendrive_id |-> dgsc_id, requester_id |-> requester_id,
               current_owner_id |-> current_owner_id, status |-> "pending",
               message |-> message, resolved_at |-> NULL_TS])

\* mutant: the SELECT without its status = 'pending' condition
AcceptSelectAnyStatus(r, request_id) ==
    IF request_id \in DOMAIN r THEN <<r[request_id]>> ELSE <<>>

\* accept_request, the SELECT ... WHERE id = ? AND status = 'pending'
AcceptSelect(r, request_id) ==
    IF request_id \in DOMAIN r /\ r[request_id].status = "pending"
    THEN <<r[request_id]>> ELSE <<>>

\* mutant: the UPDATE of pendrives without its WHERE id = ?
AcceptUpdateOwnerAllRows(p, dgsc_id, requester_id) ==
    [i \in DOMAIN p |-> [p[i] EXCEPT !.current_owner_id = requester_id]]

\* accept_request, UPDATE pendrives SET current_owner_id = ? WHERE id = ?
AcceptUpdateOwner(p, dgsc_id, requester_id) ==
    [i \in DOMAIN p |-> IF i = dgsc_id
                        THEN [p[i] EXCEPT !.current_owner_id = requester_id]
                        ELSE p[i]]

\* mutant: the status set to accepted, resolved_at left NULL
AcceptUpdateStatusNoTimestamp(r, request_id) ==
    [i \in DOMAIN r |-> IF i = request_id
                        THEN [r[i] EXCEPT !.status = "accepted"]
                        ELSE r[i]]

\* accept_request, UPDATE requests SET status = 'accepted' ... WHERE id = ?
AcceptUpdateStatus(r, request_id) ==
    [i \in DOMAIN r |-> IF i = request_id
                        THEN [r[i] EXCEPT !.status = "accepted", !.resolved_at = TS]
                        ELSE r[i]]

\* mutant: the transfer row written with the owner as to_user_id too
TransferTransactionToOwner(dgsc_id, current_owner_id, requester_id) ==
    [pendrive_id |-> dgsc_id, from_user_id |-> current_owner_id,
     to_user_id |-> current_owner_id, transaction_type |-> "transfer"]

\* mutant: the transfer row written with the kind of the initial row
TransferTransactionAsInitial(dgsc_id, current_owner_id, requester_id) ==
    [pendrive_id |-> dgsc_id, from_user_id |-> current_owner_id,
     to_user_id |-> requester_id, transaction_type |-> "initial_assignment"]

\* accept_request, the row of INSERT INTO transactions ... 'transfer'
TransferTransaction(dgsc_id, current_owner_id, requester_id) ==
    [pendrive_id |-> dgsc_id, from_user_id |-> current_owner_id,
     to_user_id |-> requester_id, transaction_type |-> "transfer"]

\* mutant: the ownership and status writes committed, the transfer row lost
AcceptWritesNoTransaction(p, r, t, request_id, row) ==
    [pendrives |-> AcceptUpdateOwner(p, row.pendrive_id, row.requester_id),
     requests |-> AcceptUpdateStatus(r, request_id),
     transactions |-> t]

\* accept_request, the three writes and the commit, with the values the
\* SELECT returned (row)
AcceptWrites(p, r, t, request_id, row) ==
    [pendrives |-> AcceptUpdateOwner(p, row.pendrive_id, row.requester_id),
     requests |-> AcceptUpdateStatus(r, request_id),
     transactions |-> Append(t, TransferTransaction(row.pendrive_id,
                                     row.current_owner_id, row.requester_id))]

\* Database.accept_request run without interleaving
accept_request(p, r, t, request_id) ==
    LET result == AcceptSelect(r, request_id)
    IN IF result = <<>>
       THEN [ok |-> FALSE, pendrives |-> p, requests |-> r, transactions |-> t]
       ELSE LET w == AcceptWrites(p, r, t, request_id, result[1])
            IN [ok |-> TRUE, pendrives |-> w.pendrives, requests |-> w.requests,
                transactions |-> w.transactions]

\* mutant: the UPDATE without its status = 'pending' condition
RejectMatchesAnyStatus(r, request_id) == {i \in DOMAIN r : i = request_id}

\* reject_request, UPDATE requests ... WHERE id = ? AND status = 'pending'
RejectMatches(r, request_id) ==
    {i \in DOMAIN r : i = request_id /\ r[i].status = "pending"}

\* mutant: the status set to rejected, resolved_at left NULL
reject_requestNoTimestamp(r, request_id) ==
    LET hit == RejectMatches(r, request_id)
    IN [ok |-> Cardinality(hit) > 0,
        requests |-> [i \in DOMAIN r |-> IF i \in hit
                         THEN [r[i] EXCEPT !.status = "rejected"]
                         ELSE r[i]]]

\* Database.reject_request: one UPDATE, returns rowcount > 0
reject_request(r, request_id) ==
    LET hit == RejectMatches(r, request_id)
    IN [ok |-> Cardinality(hit) > 0,
        requests |-> [i \in DOMAIN r |-> IF i \in hit
                         THEN [r[i] EXCEPT !.status = "rejected", !.resolved_at = TS]
                         ELSE r[i]]]

\* ------------------------------------------------------------------ bot.py

NoCall == [fn |-> "none"]

IdleConn == [pc |-> "idle", op |-> "none", request_id |-> 0, row |-> <<>>, result |-> NoResult]

Init ==
    /\ users = {}
    /\ pendrives = <<>>
    /\ requests = <<>>
    /\ transactions = <<>>
    /\ add_conv = [u \in UserIds |-> END]
    /\ req_conv = [u \in UserIds |-> END]
    /\ user_data = [u \in UserIds |-> [dgsc_name |-> "", requesting_dgsc_id |-> 0]]
    /\ ret = [op |-> "none", result |-> NoResult, id |-> 0, rows |-> {}, notify |-> "none", pressed_by |-> 0]
    /\ conn = [c \in Conns |-> IdleConn]
    /\ call = NoCall

\* Database.add_user: INSERT OR REPLACE INTO users
add_user(us, user_id) == us \cup {user_id}

\* update.message.text if update.message.text.lower() != 'skip' else ''
SkipToEmpty(text) == IF text = "skip" THEN "" ELSE text

\* start_command, search_command, list_all_items_command: upsert the caller
UpsertCommand(u) ==
    /\ users' = add_user(users, u)
    /\ ret' = [op |-> "add_user", result |-> NoResult, id |-> 0, rows |-> {}, notify |-> "none", pressed_by |-> 0]
    /\ UNCHANGED <<pendrives, requests, transactions, bot, conn, call>>

\* add_dgsc_description on the store: Database.add_dgsc with the staged name
StoreAddDgsc(u, name, text) ==
    /\ LET res == add_dgsc(pendrives, transactions, name, SkipToEmpty(text), u)
       IN /\ pendrives' = res.pendrives
          /\ transactions' = res.transactions
          /\ ret' = [op |-> "add_dgsc", result |-> PyBool(res.ok), id |-> 0, rows |-> {}, notify |-> "none", pressed_by |-> 0]
    /\ UNCHANGED <<users, requests>>

\* mutant: send_message outside try/except
NotifyOwnerUncaught(outcome) == [notify |-> outcome, raised |-> outcome = "failed"]

\* request_item_message, the notification of the owner: send_message is inside
\* try/except Exception, so the handler goes on whether it was sent or failed
NotifyOwner(outcome) == [notify |-> outcome, raised |-> FALSE]

\* mutant: request_item_message without the check for an own item
StoreCreateRequestNoSelfCheck(u, dgsc_id, text, outcome) ==
    /\ Len(requests) < MaxRequests
    /\ LET dgsc_info == get_dgsc_by_id(pendrives, dgsc_id)
       IN IF dgsc_info = <<>>
          THEN /\ requests' = requests
               /\ ret' = [op |-> "request_item_message", result |-> NoResult, id |-> 0,
                          rows |-> {}, notify |-> "none", pressed_by |-> 0]
          ELSE /\ requests' = create_request(requests, dgsc_id, u,
                                   dgsc_info[1].current_owner_id, SkipToEmpty(text))
               /\ ret' = [op |-> "create_request", result |-> NoResult, id |-> Len(requests'),
                          rows |-> {}, notify |-> NotifyOwner(outcome).notify,
                          pressed_by |-> 0]
    /\ UNCHANGED <<users, pendrives, transactions>>

\* request_item_message on the store: look the owner up, refuse a request
\* for an own item, else Database.create_request and notify the owner
StoreCreateRequest(u, dgsc_id, text, outcome) ==
    /\ Len(requests) < MaxRequests
    /\ LET dgsc_info == get_dgsc_by_id(pendrives, dgsc_id)
       IN IF dgsc_info = <<>> \/ dgsc_info[1].current_owner_id = u
          THEN /\ requests' = requests
               /\ ret' = [op |-> "request_item_message", result |-> NoResult, id |-> 0, rows |-> {}, notify |-> "none", pressed_by |-> 0]
          ELSE /\ requests' = create_request(requests, dgsc_id, u,
                                   dgsc_info[1].current_owner_id, SkipToEmpty(text))
               /\ ret' = [op |-> "create_request", result |-> NoResult, id |-> Len(requests'),
                          rows |-> {}, notify |-> NotifyOwner(outcome).notify,
                          pressed_by |-> 0]
    /\ UNCHANGED <<users, pendrives, transactions>>

\* mutant: only the press of the snapshotted owner is honoured
handle_callbackOwnerOnly(u, action, request_id, p, r, t) ==
    IF request_id \in DOMAIN r /\ r[request_id].current_owner_id = u
    THEN IF action = "accept"
         THEN accept_request(p, r, t, request_id)
         ELSE [ok |-> reject_request(r, request_id).ok, pendrives |-> p,
               requests |-> reject_request(r, request_id).requests, transactions |-> t]
    ELSE [ok |-> FALSE, pendrives |-> p, requests |-> r, transactions |-> t]

\* handle_callback: data is split into action and request_id and passed to
\* Database.accept_request or Database.reject_request; update.effective_user
\* (u) is not read
handle_callback(u, action, request_id, p, r, t) ==
    IF action = "accept"
    THEN accept_request(p, r, t, request_id)
    ELSE LET res == reject_request(r, request_id)
         IN [ok |-> res.ok, pendrives |-> p, requests |-> res.requests, transactions |-> t]

\* handle_callback, data accept_<id>, pressed by user u:
\* success = self.db.accept_request(request_id)
HandleCallbackAccept(u, request_id) ==
    \E success \in BOOLEAN :
        /\ ret' = [op |-> "accept_request", result |-> PyBool(success), id |-> 0,
                   rows |-> {}, notify |-> "none", pressed_by |-> u]
        /\ LET res == handle_callback(u, "accept", request_id, pendrives, requests, transactions)
           IN /\ success = res.ok
              /\ pendrives' = res.pendrives
              /\ requests' = res.requests
              /\ transactions' = res.transactions
        /\ UNCHANGED <<users, bot, conn, call>>

\* handle_callback, data reject_<id>, pressed by user u:
\* success = self.db.reject_request(request_id)
HandleCallbackReject(u, request_id) ==
    \E success \in BOOLEAN :
        /\ ret' = [op |-> "reject_request", result |-> PyBool(success), id |-> 0,
                   rows |-> {}, notify |-> "none", pressed_by |-> u]
        /\ LET res == handle_callback(u, "reject", request_id, pendrives, requests, transactions)
           IN /\ success = res.ok
              /\ requests' = res.requests
        /\ UNCHANGED <<users, pendrives, transactions, bot, conn, call>>

\* my_items_command (Database.get_user_dgscs): a read, nothing is written
MyItemsCommand(u) ==
    /\ ret' = [op |-> "get_user_dgscs", result |-> NoResult, id |-> 0,
               rows |-> get_user_dgscs(pendrives, u), notify |-> "none", pressed_by |-> 0]
    /\ UNCHANGED <<db, bot, conn, call>>

\* my_requests_command (Database.get_user_requests): a read
MyRequestsCommand(u) ==
    /\ ret' = [op |-> "get_user_requests", result |-> NoResult, id |-> 0,
               rows |-> get_user_requests(users, pendrives, requests, u), notify |-> "none", pressed_by |-> 0]
    /\ UNCHANGED <<db, bot, conn, call>>

\* pending_requests_command (Database.get_pending_requests_for_user): a read
PendingRequestsCommand(u) ==
    /\ ret' = [op |-> "get_pending_requests_for_user", result |-> NoResult, id |-> 0,
               rows |-> get_pending_requests_for_user(users, pendrives, requests, u),
               notify |-> "none", pressed_by |-> 0]
    /\ UNCHANGED <<db, bot, conn, call>>

\* ---- Spec: the handlers on the store.  The values a conversation staged in
\* user_data (the name, the item id) are inputs: every name can be staged by
\* add_dgsc_name and every id by request_item_start right before the step.

\* add_dgsc_description
AddDgscDescription(u, name, text) ==
    /\ StoreAddDgsc(u, name, text)
    /\ UNCHANGED <<bot, conn, call>>

\* request_item_message
RequestItemMessage(u, dgsc_id, text, outcome) ==
    /\ StoreCreateRequest(u, dgsc_id, text, outcome)
    /\ UNCHANGED <<bot, conn, call>>

Next ==
    \/ \E u \in UserIds : UpsertCommand(u)
    \/ \E u \in UserIds, name \in Names, text \in DescTexts : AddDgscDescription(u, name, text)
    \/ \E u \in UserIds, dgsc_id \in DgscIds, text \in MsgTexts, outcome \in SendOutcomes :
            RequestItemMessage(u, dgsc_id, text, outcome)
    \/ \E u \in UserIds, request_id \in RequestIds : HandleCallbackAccept(u, request_id)
    \/ \E u \in UserIds, request_id \in RequestIds : HandleCallbackReject(u, request_id)
    \/ \E u \in UserIds : MyItemsCommand(u)

Spec == Init /\ [][Next]_vars

\* ---- ListSpec: Spec with the two commands that list requests; their
\* queries are the only ones that JOIN users.

ListNext ==
    \/ Next
    \/ \E u \in UserIds : MyRequestsCommand(u)
    \/ \E u \in UserIds : PendingRequestsCommand(u)

ListSpec == Init /\ [][ListNext]_vars

\* ---- BotSpec: the conversations explicit.  All handlers are in group 0, so
\* an update goes to the first handler that accepts it: add_dgsc_handler is
\* registered before request_handler.

\* mutant: add_dgsc_start returning ADDING_DGSC_DESC
ConvAddDgscStartSkipsName(u) ==
    /\ add_conv[u] = END
    /\ add_conv' = [add_conv EXCEPT ![u] = ADDING_DGSC_DESC]
    /\ UNCHANGED <<db, req_conv, user_data, ret, conn, call>>

\* add_dgsc_start: entry point of add_dgsc_handler (no re-entry while open)
ConvAddDgscStart(u) ==
    /\ add_conv[u] = END
    /\ add_conv' = [add_conv EXCEPT ![u] = ADDING_DGSC_NAME]
    /\ UNCHANGED <<db, req_conv, user_data, ret, conn, call>>

\* add_dgsc_name: stage the name
ConvAddDgscName(u, text) ==
    /\ add_conv[u] = ADDING_DGSC_NAME
    /\ user_data' = [user_data EXCEPT ![u].dgsc_name = text]
    /\ add_conv' = [add_conv EXCEPT ![u] = ADDING_DGSC_DESC]
    /\ UNCHANGED <<db, req_conv, ret, conn, call>>

\* add_dgsc_description with the name staged in user_data
ConvAddDgscDescription(u, text) ==
    /\ add_conv[u] = ADDING_DGSC_DESC
    /\ StoreAddDgsc(u, user_data[u].dgsc_name, text)
    /\ add_conv' = [add_conv EXCEPT ![u] = END]
    /\ UNCHANGED <<req_conv, user_data, conn, call>>

\* request_item_start: entry point of request_handler, callback request_<id>
ConvRequestItemStart(u, dgsc_id) ==
    /\ req_conv[u] = END
    /\ user_data' = [user_data EXCEPT ![u].requesting_dgsc_id = dgsc_id]
    /\ req_conv' = [req_conv EXCEPT ![u] =
            IF get_dgsc_by_id(pendrives, dgsc_id) = <<>> THEN END ELSE REQUESTING_MESSAGE]
    /\ UNCHANGED <<db, add_conv, ret, conn, call>>

\* request_item_message with the id staged in user_data; the text reaches
\* request_handler only when add_dgsc_handler is not waiting for one.  A
\* handler that raises leaves the conversation in the state it was in.
ConvRequestItemMessage(u, text, outcome) ==
    /\ req_conv[u] = REQUESTING_MESSAGE
    /\ add_conv[u] = END
    /\ Len(requests) < BotMaxRequests
    /\ StoreCreateRequest(u, user_data[u].requesting_dgsc_id, text, outcome)
    /\ req_conv' = IF requests' # requests /\ NotifyOwner(outcome).raised
                   THEN req_conv
                   ELSE [req_conv EXCEPT ![u] = END]
    /\ UNCHANGED <<add_conv, user_data, conn, call>>

\* cancel: fallback of both conversations, taken by the first one that is open
ConvCancel(u) ==
    /\ add_conv[u] # END \/ req_conv[u] # END
    /\ IF add_conv[u] # END
       THEN add_conv' = [add_conv EXCEPT ![u] = END] /\ UNCHANGED req_conv
       ELSE req_conv' = [req_conv EXCEPT ![u] = END] /\ UNCHANGED add_conv
    /\ UNCHANGED <<db, user_data, ret, conn, call>>

BotNext ==
    \/ \E u \in UserIds : UpsertCommand(u)
    \/ \E u \in UserIds : ConvAddDgscStart(u)
    \/ \E u \in UserIds, text \in BotNames : ConvAddDgscName(u, text)
    \/ \E u \in UserIds, text \in DescTexts : ConvAddDgscDescription(u, text)
    \/ \E u \in UserIds, dgsc_id \in BotDgscIds : ConvRequestItemStart(u, dgsc_id)
    \/ \E u \in UserIds, text \in MsgTexts, outcome \in SendOutcomes :
            ConvRequestItemMessage(u, text, outcome)
    \/ \E u \in UserIds : ConvCancel(u)
    \/ \E u \in UserIds, request_id \in RequestIds : HandleCallbackAccept(u, request_id)
    \/ \E u \in UserIds, request_id \in RequestIds : HandleCallbackReject(u, request_id)

BotSpec == Init /\ [][BotNext]_vars

\* ---- SearchSpec: search_command over stores that hold one or two items.

\* the items table after one or two registrations (names are UNIQUE)
SearchItems == [name : SearchNames, description : SearchDescs, current_owner_id : UserIds]

SearchInit ==
    /\ pendrives \in {<<x>> : x \in SearchItems}
                     \cup {t \in SearchItems \X SearchItems : t[1].name # t[2].name}
    /\ users = {}
    /\ requests = <<>>
    /\ transactions = <<>>
    /\ add_conv = [u \in UserIds |-> END]
    /\ req_conv = [u \in UserIds |-> END]
    /\ user_data = [u \in UserIds |-> [dgsc_name |-> "", requesting_dgsc_id |-> 0]]
    /\ ret = [op |-> "none", result |-> NoResult, id |-> 0, rows |-> {}, notify |-> "none", pressed_by |-> 0]
    /\ conn = [c \in Conns |-> IdleConn]
    /\ call = NoCall

\* search_command with context.args joined to search_term (not empty): upsert
\* the caller, then Database.search_dgsc
SearchCommand(u, search_term) ==
    /\ users' = add_user(users, u)
    /\ ret' = [op |-> "search_dgsc", result |-> NoResult, id |-> 0,
               rows |-> search_dgsc(pendrives, search_term), notify |-> "none", pressed_by |-> 0]
    /\ UNCHANGED <<pendrives, requests, transactions, bot, conn, call>>

SearchNext == \E u \in UserIds, search_term \in SearchTerms : SearchCommand(u, search_term)

SearchSpec == SearchInit /\ [][SearchNext]_vars

\* ---- DisplaySpec: the display name each handler builds from the columns of
\* one users row (all None when a LEFT JOIN finds no row).

\* Python truth value of an optional str
Truthy(v) == ~v.none /\ v.text # <<>>

RECURSIVE lstrip(_)
lstrip(s) == IF s # <<>> /\ Head(s) = " " THEN lstrip(Tail(s)) ELSE s

RECURSIVE rstrip(_)
rstrip(s) == IF s # <<>> /\ s[Len(s)] = " " THEN rstrip(SubSeq(s, 1, Len(s) - 1)) ELSE s

\* str.strip()
strip(s) == rstrip(lstrip(s))

DigitChars == <<"0", "1", "2", "3", "4", "5", "6", "7", "8", "9">>

\* str(n) in an f-string, n >= 0
RECURSIVE IntText(_)
IntText(n) == IF n < 10 THEN <<DigitChars[n + 1]>>
              ELSE IntText(n \div 10) \o <<DigitChars[(n % 10) + 1]>>

\* f"User {owner_id}"
UserN(id) == <<"U", "s", "e", "r", " ">> \o IntText(id)

\* mutant: last_name tried before username
owner_displayLastNameFirst(owner_id, username, first_name, last_name) ==
    IF Truthy(first_name) /\ strip(first_name.text) # <<>> THEN strip(first_name.text)
    ELSE IF Truthy(last_name) /\ strip(last_name.text) # <<>> THEN strip(last_name.text)
    ELSE IF Truthy(username) /\ strip(username.text) # <<>> THEN strip(username.text)
    ELSE UserN(owner_id)

\* search_command, list_all_items_command, request_item_start: the if/elif
\* chain first_name, username, last_name, f"User {owner_id}"
owner_display(owner_id, username, first_name, last_name) ==
    IF Truthy(first_name) /\ strip(first_name.text) # <<>> THEN strip(first_name.text)
    ELSE IF Truthy(username) /\ strip(username.text) # <<>> THEN strip(username.text)
    ELSE IF Truthy(last_name) /\ strip(last_name.text) # <<>> THEN strip(last_name.text)
    ELSE UserN(owner_id)

\* my_requests_command, pending_requests_command: the query returns no
\* last_name; the chain is first_name, username, f"User {id}"
requester_display(requester_id, requester_username, requester_first_name) ==
    IF Truthy(requester_first_name) /\ strip(requester_first_name.text) # <<>>
        THEN strip(requester_first_name.text)
    ELSE IF Truthy(requester_username) /\ strip(requester_username.text) # <<>>
        THEN strip(requester_username.text)
    ELSE UserN(requester_id)

\* the places that show an owner or a requester
Places == {"search_command", "list_all_items_command", "request_item_start",
           "my_requests_command", "pending_requests_command"}

DisplayInit ==
    /\ call \in [fn : {"none"}, user_id : UserIds, username : Usernames,
                  first_name : FirstNames, last_name : LastNames, display : {<<>>}]
    /\ users = {}
    /\ pendrives = <<>>
    /\ requests = <<>>
    /\ transactions = <<>>
    /\ add_conv = [u \in UserIds |-> END]
    /\ req_conv = [u \in UserIds |-> END]
    /\ user_data = [u \in UserIds |-> [dgsc_name |-> "", requesting_dgsc_id |-> 0]]
    /\ ret = [op |-> "none", result |-> NoResult, id |-> 0, rows |-> {}, notify |-> "none", pressed_by |-> 0]
    /\ conn = [c \in Conns |-> IdleConn]

\* search_command, list_all_items_command, request_item_start show the owner
ShowOwner(place) ==
    /\ call' = [call EXCEPT !.fn = place,
                            !.display = owner_display(call.user_id, call.username,
                                                      call.first_name, call.last_name)]
    /\ UNCHANGED <<db, bot, ret, conn>>

\* my_requests_command shows the owner, pending_requests_command the requester
ShowFromRequestRow(place) ==
    /\ call' = [call EXCEPT !.fn = place,
                            !.display = requester_display(call.user_id, call.username,
                                                          call.first_name)]
    /\ UNCHANGED <<db, bot, ret, conn>>

DisplayNext ==
    \/ \E place \in {"search_command", "list_all_items_command", "request_item_start"} :
            ShowOwner(place)
    \/ \E place \in {"my_requests_command", "pending_requests_command"} :
            ShowFromRequestRow(place)

DisplaySpec == DisplayInit /\ [][DisplayNext]_vars

\* ---- ConcSpec: accept_request and reject_request called on two connections.
\* sqlite3 opens the write transaction at the first UPDATE, so the SELECT of
\* accept_request is a step of its own (autocommit); the three writes become
\* visible to the other connection together, at conn.commit().  A writer that
\* finds the store locked waits for the other's commit (busy timeout), it is
\* not refused.  Each connection serves one call.

\* accept_request lines 216-229: connect, SELECT, return False on no row
ConnAcceptSelect(c, request_id) ==
    /\ conn[c].pc = "idle"
    /\ LET result == AcceptSelect(requests, request_id)
       IN conn' = [conn EXCEPT ![c] =
            IF result = <<>>
            THEN [pc |-> "done", op |-> "accept_request", request_id |-> request_id,
                  row |-> <<>>, result |-> "False"]
            ELSE [pc |-> "selected", op |-> "accept_request", request_id |-> request_id,
                  row |-> result, result |-> NoResult]]
    /\ UNCHANGED <<db, bot, ret, call>>

\* accept_request lines 231-255: the writes with the values read, commit, True
ConnAcceptCommit(c) ==
    /\ conn[c].pc = "selected"
    /\ LET w == AcceptWrites(pendrives, requests, transactions,
                             conn[c].request_id, conn[c].row[1])
       IN /\ pendrives' = w.pendrives
          /\ requests' = w.requests
          /\ transactions' = w.transactions
    /\ conn' = [conn EXCEPT ![c].pc = "done", ![c].result = "True"]
    /\ UNCHANGED <<users, bot, ret, call>>

\* reject_request: one UPDATE statement and its commit
ConnReject(c, request_id) ==
    /\ conn[c].pc = "idle"
    /\ LET res == reject_request(requests, request_id)
       IN /\ requests' = res.requests
          /\ conn' = [conn EXCEPT ![c] =
                [pc |-> "done", op |-> "reject_request", request_id |-> request_id,
                 row |-> <<>>, result |-> PyBool(res.ok)]]
    /\ UNCHANGED <<users, pendrives, transactions, bot, ret, call>>

ConcNext ==
    \/ \E u \in UserIds, name \in Names, text \in DescTexts : AddDgscDescription(u, name, text)
    \/ \E u \in UserIds, dgsc_id \in DgscIds, text \in MsgTexts, outcome \in SendOutcomes :
            RequestItemMessage(u, dgsc_id, text, outcome)
    \/ \E c \in Conns, request_id \in RequestIds : ConnAcceptSelect(c, request_id)
    \/ \E c \in Conns : ConnAcceptCommit(c)
    \/ \E c \in Conns, request_id \in RequestIds : ConnReject(c, request_id)

ConcSpec == Init /\ [][ConcNext]_vars

\* ------------------------------------------------------------------ claims

Pending(r, request_id) == request_id \in DOMAIN r /\ r[request_id].status = "pending"
Resolved(r, request_id) ==
    request_id \in DOMAIN r /\ r[request_id].status \in {"accepted", "rejected"}

\* C1: over every sequence of handler steps a request row is never removed and
\* its status changes only from pending to accepted or from pending to
\* rejected; a resolved status is never changed again.
C1_StatusChangesOnce ==
    [][\A i \in DOMAIN requests :
          /\ i \in DOMAIN requests'
          /\ requests'[i].status # requests[i].status =>
                /\ requests[i].status = "pending"
                /\ requests'[i].status \in {"accepted", "rejected"}]_vars

\* a rejected request exists and a later accept was just refused
C1_Witness ==
    /\ \E i \in DOMAIN requests : requests[i].status = "rejected"
    /\ \E i \in DOMAIN requests : requests[i].status = "accepted"
    /\ ret.op = "accept_request" /\ ret.result = "False"

\* C2: the commit of an accept that read a pending request returns True and
\* in that one step sets the item's owner to the requester, sets the status
\* to accepted with a resolved timestamp and appends exactly one transfer row
\* from the snapshotted owner to the requester; no step shows the status, the
\* owner or the log changed by an accept without the other two.
C2_AcceptAtomic ==
    [][/\ \A c \in Conns :
            (conn[c].pc = "selected" /\ conn'[c].pc = "done") =>
                LET rid == conn[c].request_id
                    row == conn[c].row[1]
                IN /\ conn'[c].result = "True"
                   /\ pendrives'[row.pendrive_id].current_owner_id = row.requester_id
                   /\ requests'[rid].status = "accepted"
                   /\ requests'[rid].resolved_at = TS
                   /\ transactions' = Append(transactions,
                         [pendrive_id |-> row.pendrive_id,
                          from_user_id |-> row.current_owner_id,
                          to_user_id |-> row.requester_id,
                          transaction_type |-> "transfer"])
                   /\ row = [requests[rid] EXCEPT !.status = "pending", !.resolved_at = NULL_TS]
       /\ \A i \in DOMAIN requests :
            (requests[i].status # "accepted" /\ requests'[i].status = "accepted") =>
                /\ pendrives'[requests[i].pendrive_id].current_owner_id = requests[i].requester_id
                /\ Len(transactions') = Len(transactions) + 1
       /\ \A i \in DOMAIN pendrives :
            pendrives'[i].current_owner_id # pendrives[i].current_owner_id =>
                /\ Len(transactions') = Len(transactions) + 1
                /\ \E c \in Conns : conn[c].pc = "selected" /\ conn'[c].pc = "done"
                      /\ requests'[conn[c].request_id].status = "accepted"
      ]_vars

\* an accept has read a pending request and committed
C2_Witness ==
    \E c \in Conns :
        /\ conn[c].pc = "done" /\ conn[c].op = "accept_request" /\ conn[c].result = "True"
        /\ requests[conn[c].request_id].status = "accepted"
        /\ pendrives[requests[conn[c].request_id].pendrive_id].current_owner_id
              = requests[conn[c].request_id].requester_id

DbUnchanged == UNCHANGED <<users, pendrives, requests, transactions>>

\* C3: accept or reject of an id that does not exist or of a request that is
\* already accepted or rejected returns False and leaves users, items,
\* requests and the transaction log unchanged.
C3_ResolvedOrMissingIsNoOp ==
    [][\A u \in UserIds, rid \in RequestIds :
          (/\ ~Pending(requests, rid)
           /\ HandleCallbackAccept(u, rid) \/ HandleCallbackReject(u, rid))
          => /\ ret'.op \in {"accept_request", "reject_request"}
             /\ ret'.result = "False"
             /\ DbUnchanged]_vars

\* a reject was just refused while an accepted request exists, so the owner
\* set by the first accept stands
C3_Witness ==
    /\ ret.op = "reject_request" /\ ret.result = "False"
    /\ \E i \in DOMAIN requests :
          /\ requests[i].status = "accepted"
          /\ pendrives[requests[i].pendrive_id].current_owner_id = requests[i].requester_id
    /\ Len(requests) < MaxRequests

\* C4: of two accept calls for the same request on two connections at most
\* one returns True.
C4_AtMostOneAcceptWins ==
    \A c1, c2 \in Conns :
        (/\ c1 # c2
         /\ conn[c1].op = "accept_request" /\ conn[c2].op = "accept_request"
         /\ conn[c1].request_id = conn[c2].request_id
         /\ conn[c1].pc = "done" /\ conn[c2].pc = "done")
        => ~(conn[c1].result = "True" /\ conn[c2].result = "True")

\* C5: add_dgsc_description with a name that an item already has returns
\* False and leaves users, items, requests and the transaction log unchanged.
C5_DuplicateNameRefused ==
    [][\A u \in UserIds, name \in Names, text \in DescTexts :
          (/\ \E i \in DOMAIN pendrives : pendrives[i].name = name
           /\ AddDgscDescription(u, name, text))
          => /\ ret'.op = "add_dgsc"
             /\ ret'.result = "False"
             /\ DbUnchanged]_vars

\* a registration was just refused although another name is still free
C5_Witness ==
    /\ ret.op = "add_dgsc" /\ ret.result = "False"
    /\ Len(pendrives) = 1

\* C6: add_dgsc_description with a new name returns True, appends one item
\* with that name owned by the caller, so that get_user_dgscs of the caller
\* holds exactly one item of that name, and appends one initial_assignment
\* row (NULL to the caller) for it; other items, requests, users and earlier
\* log rows are unchanged.
C6_RegisterAddsItemAndRow ==
    [][\A u \in UserIds, name \in Names, text \in DescTexts :
          (/\ ~ \E i \in DOMAIN pendrives : pendrives[i].name = name
           /\ AddDgscDescription(u, name, text))
          => LET id == Len(pendrives) + 1
             IN /\ ret'.op = "add_dgsc"
                /\ ret'.result = "True"
                /\ Len(pendrives') = id
                /\ SubSeq(pendrives', 1, Len(pendrives)) = pendrives
                /\ pendrives'[id].name = name
                /\ pendrives'[id].current_owner_id = u
                /\ Cardinality({i \in get_user_dgscs(pendrives', u) :
                                    pendrives'[i].name = name}) = 1
                /\ transactions' = Append(transactions,
                      [pendrive_id |-> id, from_user_id |-> NULL, to_user_id |-> u,
                       transaction_type |-> "initial_assignment"])
                /\ UNCHANGED <<users, requests>>]_vars

\* a second item was just registered by a user who owned one already
C6_Witness ==
    /\ ret.op = "add_dgsc" /\ ret.result = "True"
    /\ Len(pendrives) = 2
    /\ pendrives[1].current_owner_id = pendrives[2].current_owner_id
    /\ Len(requests) > 0

\* C7: reject of a pending request returns True, sets that request's status
\* to rejected and its resolved_at, and changes no other request, no item,
\* no user and no log row.
C7_RejectChangesOnlyTheRequest ==
    [][\A u \in UserIds, rid \in RequestIds :
          (Pending(requests, rid) /\ HandleCallbackReject(u, rid))
          => /\ ret'.op = "reject_request"
             /\ ret'.result = "True"
             /\ requests' = [requests EXCEPT ![rid].status = "rejected",
                                             ![rid].resolved_at = TS]
             /\ UNCHANGED <<users, pendrives, transactions>>]_vars

\* a request was just rejected while another request is still pending
C7_Witness ==
    /\ ret.op = "reject_request" /\ ret.result = "True"
    /\ \E i, j \in DOMAIN requests :
          requests[i].status = "rejected" /\ requests[j].status = "pending"

\* C8: no handler removes an item, and an item's current owner changes only
\* in a step that is an accept returning True of a request that was pending
\* and targets that item; the new owner is that request's requester.
C8_OwnerChangesOnlyByAccept ==
    [][\A i \in DOMAIN pendrives :
          /\ i \in DOMAIN pendrives'
          /\ pendrives'[i].current_owner_id # pendrives[i].current_owner_id =>
                /\ ret'.op = "accept_request"
                /\ ret'.result = "True"
                /\ \E u \in UserIds, rid \in RequestIds :
                      /\ HandleCallbackAccept(u, rid)
                      /\ Pending(requests, rid)
                      /\ requests[rid].pendrive_id = i
                      /\ pendrives'[i].current_owner_id = requests[rid].requester_id]_vars

\* two items exist, one was given away by an accept and the other was not
C8_Witness ==
    /\ Len(pendrives) = 2
    /\ \E i \in DOMAIN requests :
          /\ requests[i].status = "accepted"
          /\ pendrives[requests[i].pendrive_id].current_owner_id = requests[i].requester_id
          /\ requests[i].current_owner_id # requests[i].requester_id
          /\ \E j \in DOMAIN pendrives :
                j # requests[i].pendrive_id
                /\ pendrives[j].current_owner_id = requests[i].current_owner_id

\* C9: every step keeps the rows the transaction log had, in place and
\* unchanged; the log changes only by rows appended at its end.
C9_LogAppendOnly ==
    [][/\ Len(transactions') >= Len(transactions)
       /\ SubSeq(transactions', 1, Len(transactions)) = transactions]_vars

\* the log holds an initial row followed by a transfer and a later initial row
C9_Witness ==
    /\ Len(transactions) >= 3
    /\ transactions[1].transaction_type = "initial_assignment"
    /\ transactions[2].transaction_type = "transfer"
    /\ transactions[3].transaction_type = "initial_assignment"

RowsOf(t, dgsc_id) == SelectSeq(t, LAMBDA row : row.pendrive_id = dgsc_id)
RowsOfKind(t, dgsc_id, kind) ==
    SelectSeq(t, LAMBDA row : row.pendrive_id = dgsc_id /\ row.transaction_type = kind)
AcceptedFor(r, dgsc_id) ==
    {i \in DOMAIN r : r[i].pendrive_id = dgsc_id /\ r[i].status = "accepted"}
RequestsFor(r, dgsc_id) == {i \in DOMAIN r : r[i].pendrive_id = dgsc_id}

\* C10: every log row belongs to an item and is an initial_assignment or a
\* transfer; each item has exactly one initial_assignment row and as many
\* transfer rows as accepted requests target it; an item whose only request
\* is accepted is owned by the requester and its rows are the initial row to
\* the snapshotted owner and the transfer from that owner to the requester.
C10_LogMatchesItemsAndAccepts ==
    /\ \A k \in DOMAIN transactions :
          /\ transactions[k].pendrive_id \in DOMAIN pendrives
          /\ transactions[k].transaction_type \in {"initial_assignment", "transfer"}
    /\ \A i \in DOMAIN pendrives :
          /\ Len(RowsOfKind(transactions, i, "initial_assignment")) = 1
          /\ Len(RowsOfKind(transactions, i, "transfer"))
                = Cardinality(AcceptedFor(requests, i))
          /\ \A rid \in DOMAIN requests :
                (RequestsFor(requests, i) = {rid} /\ requests[rid].status = "accepted") =>
                    /\ pendrives[i].current_owner_id = requests[rid].requester_id
                    /\ RowsOf(transactions, i) =
                          << [pendrive_id |-> i, from_user_id |-> NULL,
                              to_user_id |-> requests[rid].current_owner_id,
                              transaction_type |-> "initial_assignment"],
                             [pendrive_id |-> i, from_user_id |-> requests[rid].current_owner_id,
                              to_user_id |-> requests[rid].requester_id,
                              transaction_type |-> "transfer"] >>

\* item 1 registered by user 1, requested by user 2, accepted
C10_Witness ==
    /\ Len(pendrives) >= 1 /\ Len(requests) = 1
    /\ requests[1].pendrive_id = 1 /\ requests[1].status = "accepted"
    /\ requests[1].current_owner_id = 1 /\ requests[1].requester_id = 2
    /\ pendrives[1].current_owner_id = 2
    /\ Len(RowsOf(transactions, 1)) = 2

InitialOwner(t, dgsc_id) == RowsOfKind(t, dgsc_id, "initial_assignment")[1].to_user_id

\* C11: a request appended by the request flow is pending and its
\* current_owner_id is the owner the item has in the step that inserts it
\* (the item is the one staged by the requester's button press); the
\* current_owner_id of a stored request never changes, whoever owns the item
\* later.
C11_SnapshotIsOwnerAtInsert ==
    [][/\ \A i \in DOMAIN requests :
             /\ i \in DOMAIN requests'
             /\ requests'[i].current_owner_id = requests[i].current_owner_id
       /\ \A i \in DOMAIN requests' \ DOMAIN requests :
             /\ requests'[i].status = "pending"
             /\ requests'[i].pendrive_id \in DOMAIN pendrives
             /\ requests'[i].current_owner_id
                   = pendrives[requests'[i].pendrive_id].current_owner_id
             /\ req_conv[requests'[i].requester_id] = REQUESTING_MESSAGE
             /\ user_data[requests'[i].requester_id].requesting_dgsc_id
                   = requests'[i].pendrive_id]_vars

\* a request created after the item had changed hands (its snapshot is not
\* the registering user) and whose item has changed hands again since
C11_Witness ==
    \E i \in DOMAIN requests :
        /\ requests[i].current_owner_id # InitialOwner(transactions, requests[i].pendrive_id)
        /\ requests[i].current_owner_id # pendrives[requests[i].pendrive_id].current_owner_id

\* C12: in every state the current owner of every item has a row in users.
C12_OwnerIsAUser ==
    \A i \in DOMAIN pendrives : pendrives[i].current_owner_id \in users

\* C13: my_requests (get_user_requests) of a user returns every request whose
\* requester is that user, whatever its status, and no other request.
C13_ListByRequesterIsComplete ==
    [][\A u \in UserIds :
          MyRequestsCommand(u)
          => /\ ret'.op = "get_user_requests"
             /\ ret'.rows = {i \in DOMAIN requests : requests[i].requester_id = u}]_vars

\* C14: pending_requests (get_pending_requests_for_user) of a user returns
\* exactly the requests whose snapshotted owner is that user and whose status
\* is pending.
C14_ListPendingIsExact ==
    [][\A u \in UserIds :
          PendingRequestsCommand(u)
          => /\ ret'.op = "get_pending_requests_for_user"
             /\ ret'.rows = {i \in DOMAIN requests : /\ requests[i].current_owner_id = u
                                                     /\ requests[i].status = "pending"}]_vars

\* text contains term as a contiguous substring, letters compared without case
ContainsFolded(term, text) ==
    \E k \in 0..(Len(text) - Len(term)) :
        \A j \in 1..Len(term) : FoldAscii(text[k + j]) = FoldAscii(term[j])

\* C15: a search for a non-empty term returns exactly the items whose name or
\* description contains the term as a contiguous substring, compared
\* case-insensitively.
C15_SearchIsFoldedSubstring ==
    [][\A u \in UserIds, term \in SearchTerms :
          SearchCommand(u, term)
          => /\ ret'.op = "search_dgsc"
             /\ ret'.rows = {i \in DOMAIN pendrives :
                                \/ ContainsFolded(term, pendrives[i].name)
                                \/ ContainsFolded(term, pendrives[i].description)}]_vars

\* the policy: given name if non-empty after trimming, else handle if
\* non-empty, else family name if non-empty, else "User {id}"
PolicyName(id, username, first_name, last_name) ==
    IF Truthy(first_name) /\ strip(first_name.text) # <<>> THEN strip(first_name.text)
    ELSE IF Truthy(username) /\ strip(username.text) # <<>> THEN strip(username.text)
    ELSE IF Truthy(last_name) /\ strip(last_name.text) # <<>> THEN strip(last_name.text)
    ELSE UserN(id)

\* C16: each of the five places (search results, list of all items, request
\* prompt, my-requests list, pending-requests list) shows the name the policy
\* gives for the user.
C16_SamePolicyEverywhere ==
    call.fn \in Places
    => call.display = PolicyName(call.user_id, call.username, call.first_name, call.last_name)

Empty(v) == v.none \/ v.text = <<>>

\* the user with handle "jsmith", empty given name and family name "Smith"
IsJSmith ==
    /\ call.username = Str(<<"j", "s", "m", "i", "t", "h">>)
    /\ call.first_name = Str(<<>>)
    /\ call.last_name = Str(<<"S", "m", "i", "t", "h">>)

AllEmpty == Empty(call.username) /\ Empty(call.first_name) /\ Empty(call.last_name)

\* C17 as stated: the user with handle "jsmith", empty given name and family
\* name "Smith" is shown as "Smith"; a user whose handle, given name and
\* family name are all empty is shown as "User {id}".
C17_JSmithShownAsSmith ==
    call.fn \in Places
    => /\ IsJSmith => call.display = <<"S", "m", "i", "t", "h">>
       /\ AllEmpty => call.display = UserN(call.user_id)

\* C17 amended: the user with handle "jsmith", empty given name and family
\* name "Smith" is shown as "jsmith", the handle coming before the family
\* name; a user whose handle, given name and family name are all empty is
\* shown as "User {id}".
C17_JSmithShownAsHandle ==
    call.fn \in Places
    => /\ IsJSmith => call.display = <<"j", "s", "m", "i", "t", "h">>
       /\ AllEmpty => call.display = UserN(call.user_id)

\* the list of all items has shown the owner jsmith / "" / Smith
C17_Witness ==
    /\ call.fn = "list_all_items_command"
    /\ IsJSmith
    /\ call.display = <<"j", "s", "m", "i", "t", "h">>

\* C18: when the notification of the owner fails after create_request, the
\* handler goes on: the new request is stored pending, the other requests,
\* users, items and the log are as before, and the requester's conversation
\* ends.
C18_NotifyFailureSwallowed ==
    [][\A u \in UserIds, text \in MsgTexts :
          (ConvRequestItemMessage(u, text, "failed") /\ requests' # requests)
          => /\ ret'.op = "create_request"
             /\ ret'.notify = "failed"
             /\ requests' = Append(requests, requests'[Len(requests')])
             /\ requests'[Len(requests')].status = "pending"
             /\ requests'[Len(requests')].requester_id = u
             /\ UNCHANGED <<users, pendrives, transactions, add_conv, user_data>>
             /\ req_conv' = [req_conv EXCEPT ![u] = END]]_vars

\* a request was just created, its notification failed, the request is
\* pending and the requester is out of the conversation
C18_Witness ==
    /\ ret.op = "create_request"
    /\ ret.notify = "failed"
    /\ requests[ret.id].status = "pending"
    /\ req_conv[requests[ret.id].requester_id] = END

Done(c, op, request_id) ==
    conn[c].pc = "done" /\ conn[c].op = op /\ conn[c].request_id = request_id

\* C19: of an accept and a reject of the same request, each on its own
\* connection, at most one returns True, an accepted status comes with a True
\* accept only when the reject returned False, and a status never moves from
\* rejected to accepted.
C19_AcceptOrRejectWins ==
    [][/\ \A c, d \in Conns, rid \in RequestIds :
             (Done(c, "accept_request", rid) /\ Done(d, "reject_request", rid))'
             => ~(conn'[c].result = "True" /\ conn'[d].result = "True")
       /\ \A i \in DOMAIN requests :
             ~(requests[i].status = "rejected" /\ requests'[i].status = "accepted")]_vars

\* C20: no two items ever have the same name, names compared as exact
\* case-sensitive strings: a registration succeeds exactly when no item has
\* that very string as its name, so names that differ only in letter case
\* can both be registered and an identical name never can.
C20_NamesUniqueByExactString ==
    [][/\ \A i, j \in DOMAIN pendrives' :
             i # j => pendrives'[i].name # pendrives'[j].name
       /\ \A u \in UserIds, name \in Names, text \in DescTexts :
             AddDgscDescription(u, name, text)
             => /\ ret'.op = "add_dgsc"
                /\ ret'.result = "True"
                      <=> ~ \E i \in DOMAIN pendrives : pendrives[i].name = name]_vars

\* "Drive A" and "drive a" are both registered and a further registration
\* was just refused
C20_Witness ==
    /\ Len(pendrives) = 2
    /\ {pendrives[1].name, pendrives[2].name} = {"Drive A", "drive a"}
    /\ ret.op = "add_dgsc" /\ ret.result = "False"

\* C21: the log rows of every item form a chain: the from-user of every row
\* after the first is the to-user of the row before it for the same item.
C21_LogIsOwnershipChain ==
    \A i \in DOMAIN pendrives :
        LET rows == RowsOf(transactions, i)
        IN \A k \in 2..Len(rows) : rows[k].from_user_id = rows[k - 1].to_user_id

\* C22: in every state the current owner of every item is the to-user of the
\* last log row of that item.
C22_OwnerIsLastToUser ==
    \A i \in DOMAIN pendrives :
        LET rows == RowsOf(transactions, i)
        IN /\ Len(rows) >= 1
           /\ pendrives[i].current_owner_id = rows[Len(rows)].to_user_id

\* an item that changed hands twice and is back with the user who registered it
C22_Witness ==
    \E i \in DOMAIN pendrives :
        LET rows == RowsOf(transactions, i)
        IN /\ Len(rows) = 3
           /\ rows[2].to_user_id # rows[3].to_user_id
           /\ pendrives[i].current_owner_id = rows[1].to_user_id

\* C23: in every store state, for every request id, accept and reject give
\* the same return value and the same resulting items, requests and log for
\* every caller, and for the id of a pending request they return True.
C23_CallerIndependent ==
    \A u, v \in UserIds, rid \in RequestIds, action \in {"accept", "reject"} :
        /\ handle_callback(u, action, rid, pendrives, requests, transactions)
              = handle_callback(v, action, rid, pendrives, requests, transactions)
        /\ Pending(requests, rid)
              => handle_callback(u, action, rid, pendrives, requests, transactions).ok

\* an accept pressed by a user who is not the snapshotted owner of the one
\* accepted request has just returned True
C23_Witness ==
    /\ ret.op = "accept_request" /\ ret.result = "True"
    /\ \E i \in DOMAIN requests :
          /\ requests[i].status = "accepted"
          /\ requests[i].current_owner_id # ret.pressed_by
          /\ \A j \in DOMAIN requests : requests[j].status = "accepted" => j = i

\* C24: when the requester owns the staged item at the message step, no
\* request is created and the requester's conversation ends; every stored
\* request has a requester different from its snapshotted owner.
C24_NoSelfRequest ==
    [][/\ \A u \in UserIds, text \in MsgTexts, outcome \in SendOutcomes :
             (/\ user_data[u].requesting_dgsc_id \in DOMAIN pendrives
              /\ pendrives[user_data[u].requesting_dgsc_id].current_owner_id = u
              /\ ConvRequestItemMessage(u, text, outcome))
             => /\ requests' = requests
                /\ ret'.op = "request_item_message"
                /\ req_conv'[u] = END
       /\ \A i \in DOMAIN requests' :
             requests'[i].requester_id # requests'[i].current_owner_id]_vars

\* a message step has just refused a request for an own item: the item is
\* the requester's since an accept, the conversations are closed
C24_Witness ==
    /\ ret.op = "request_item_message"
    /\ \E i \in DOMAIN requests :
          /\ requests[i].status = "accepted"
          /\ pendrives[requests[i].pendrive_id].current_owner_id = requests[i].requester_id
          /\ req_conv[requests[i].requester_id] = END

\* C25: in every state the resolved_at of a request is NULL exactly when
\* its status is pending, so it is set in the step that changes the status.
C25_ResolvedAtNullIffPending ==
    \A i \in DOMAIN requests :
        requests[i].resolved_at = NULL_TS <=> requests[i].status = "pending"

\* one request accepted, one rejected, both stamped, after both were pending
C25_Witness ==
    /\ Len(requests) = 2
    /\ {requests[1].status, requests[2].status} = {"accepted", "rejected"}
    /\ requests[1].resolved_at = TS /\ requests[2].resolved_at = TS

\* C26: a request for an existing item of another user is always inserted,
\* whatever requests exist already; accept or reject of a pending request
\* returns True and leaves every other request as it was.
C26_RequestsAreIndependent ==
    [][/\ \A u \in UserIds, d \in DgscIds, text \in MsgTexts, outcome \in SendOutcomes :
             (/\ d \in DOMAIN pendrives
              /\ pendrives[d].current_owner_id # u
              /\ RequestItemMessage(u, d, text, outcome))
             => /\ Len(requests') = Len(requests) + 1
                /\ SubSeq(requests', 1, Len(requests)) = requests
                /\ requests'[Len(requests')].pendrive_id = d
                /\ requests'[Len(requests')].requester_id = u
                /\ requests'[Len(requests')].status = "pending"
       /\ \A u \in UserIds, rid \in RequestIds :
             (/\ Pending(requests, rid)
              /\ HandleCallbackAccept(u, rid) \/ HandleCallbackReject(u, rid))
             => /\ ret'.result = "True"
                /\ requests'[rid].status # "pending"
                /\ \A j \in DOMAIN requests : j # rid => requests'[j] = requests[j]]_vars

\* two requests of one requester for one item: the second was created while
\* the first was pending and has been rejected, the first is still pending
C26_Witness ==
    /\ Len(requests) >= 2
    /\ requests[1].pendrive_id = requests[2].pendrive_id
    /\ requests[1].requester_id = requests[2].requester_id
    /\ requests[1].status = "pending"
    /\ requests[2].status = "rejected"

\* C27: an item is added only by the description step of a user whose
\* conversation is at that step, with the name that user staged; a
\* conversation comes to the description step only from the name step, which
\* stages the name; /cancel at the name step or the description step ends
\* the conversation and leaves items and log as they were.
C27_RegistersOnlyInFinalStep ==
    [][/\ Len(pendrives') # Len(pendrives)
             => \E u \in UserIds :
                   /\ add_conv[u] = ADDING_DGSC_DESC
                   /\ add_conv'[u] = END
                   /\ user_data[u].dgsc_name \in BotNames
                   /\ pendrives' = Append(pendrives, pendrives'[Len(pendrives')])
                   /\ pendrives'[Len(pendrives')].name = user_data[u].dgsc_name
                   /\ pendrives'[Len(pendrives')].current_owner_id = u
       /\ \A u \in UserIds :
             (add_conv'[u] = ADDING_DGSC_DESC /\ add_conv[u] # ADDING_DGSC_DESC)
             => /\ add_conv[u] = ADDING_DGSC_NAME
                /\ user_data'[u].dgsc_name \in BotNames
       /\ \A u \in UserIds :
             (add_conv[u] # END /\ ConvCancel(u))
             => /\ add_conv'[u] = END
                /\ pendrives' = pendrives
                /\ transactions' = transactions]_vars

\* a user staged a name and cancelled at the description step: the
\* conversation is over, the store was never written
C27_Witness ==
    /\ ret.op = "none"
    /\ pendrives = <<>> /\ transactions = <<>>
    /\ \E u \in UserIds : user_data[u].dgsc_name \in BotNames /\ add_conv[u] = END
====
